---- MODULE Spec2Model ----
(***************************************************************************)
(* The 1D XRD pattern container xrd1d of plugins/xrd/xrd.py as a state     *)
(* machine: one action per public method, the numpy array operations the   *)
(* methods use as operators on sequences.                                  *)
(*                                                                         *)
(* Coordinates are fixed point: a float v is the integer v * Scale;        *)
(* intensities are whole counts.                                           *)
(* Indices are 0-based as in the source; a sequence a holds a[0] of the    *)
(* source at a[1].                                                         *)
(***************************************************************************)
EXTENDS Integers, Sequences, FiniteSets, TLC

VARIABLES q, twth, d, I, wavelength, imin, imax, bkgd, pki, call, ret,
          drawn, skip_process, stack

vars == <<q, twth, d, I, wavelength, imin, imax, bkgd, pki, call, ret,
          drawn, skip_process, stack>>

\* the xrd1d object, the last call made and what it gave back
xrdvars == <<q, twth, d, I, wavelength, imin, imax, bkgd, pki, call, ret>>
\* the calls the XAFS plotting macros have sent to the plotter
plotvars == <<drawn>>
\* the LinearComboPanel: its flag and the methods that are running
panelvars == <<skip_process, stack>>

(***************************************************************************)
(* Bounds of the model.                                                    *)
(***************************************************************************)
\* longest x/y block handed to set_xy_data or read from a file
MaxLen == 3
\* trim values are 0, 1, ..., MaxTrim whole units
MaxTrim == 4
\* the background estimator returns a curve up to MaxShort samples short
MaxShort == 1
\* the finite threshold find_peaks is called with, in counts
PeakThreshold == 4
\* in the background fit on its own, the estimator's curve is up to
\* MaxShortFit samples short
MaxShortFit == 2
\* a feffit dataset has up to MaxPaths paths
MaxPaths == 2
\* the plot windows are 1, ..., MaxWin
MaxWin == 2
\* a pre-edge peak group has up to MaxFits fits in its history
MaxFits == 2
\* events delivered while a LinearComboPanel method runs nest up to
\* MaxDepth methods deep
MaxDepth == 8

\* fixed-point unit: the integer Scale stands for 1.0
Scale == 1000
\* 2 * pi in fixed point
TwoPi == 6283
\* degrees per radian in fixed point
DegPerRad == 57296
\* two floats agree when they differ by at most RelTol parts in Scale
RelTol == 2

(***************************************************************************)
(* Python values.  None for a number is NoneVal; an attribute that holds   *)
(* None, a 0-d array or a 1-d array is a record with its kind.             *)
(***************************************************************************)
NoneVal == -1

NoneArr == [kind |-> "none", v |-> <<>>]
\* an attribute that was never assigned: reading it raises AttributeError
MissingVal == -2
Unset == [kind |-> "unset", v |-> <<>>]
ZeroD == [kind |-> "0d", v |-> <<0>>]
Arr(s) == [kind |-> "arr", v |-> s]
IsArr(a) == a.kind = "arr"

(***************************************************************************)
(* numpy helpers                                                           *)
(***************************************************************************)
Abs(n) == IF n < 0 THEN -n ELSE n

Zeros(n) == [i \in 1..n |-> 0]

RECURSIVE SeqMin(_)
SeqMin(s) ==
    IF Len(s) = 1 THEN s[1]
    ELSE LET m == SeqMin(Tail(s)) IN IF s[1] <= m THEN s[1] ELSE m

RECURSIVE SeqMax(_)
SeqMax(s) ==
    IF Len(s) = 1 THEN s[1]
    ELSE LET m == SeqMax(Tail(s)) IN IF s[1] >= m THEN s[1] ELSE m

\* ndarray.argmin(): 0-based index of the first occurrence of the minimum,
\* found by a left-to-right scan that replaces the best only on a strictly
\* smaller value
RECURSIVE ArgMinFrom(_, _, _)
ArgMinFrom(s, i, best) ==
    IF i > Len(s) THEN best - 1
    ELSE ArgMinFrom(s, i + 1, IF s[i] < s[best] THEN i ELSE best)

ArgMin(s) == ArgMinFrom(s, 2, 1)

\* np.abs(x - v)
AbsDiff(x, v) == [i \in 1..Len(x) |-> Abs(x[i] - v)]

\* a[lo:hi] for lo, hi None or >= 0
SliceStart(a, lo) == IF lo = NoneVal THEN 0 ELSE IF lo > Len(a) THEN Len(a) ELSE lo
SliceStop(a, hi) == IF hi = NoneVal THEN Len(a) ELSE IF hi > Len(a) THEN Len(a) ELSE hi
Slice(a, lo, hi) == SubSeq(a, SliceStart(a, lo) + 1, SliceStop(a, hi))

(***************************************************************************)
(* Axis tags are strings of the source; a tag is the sequence of its       *)
(* characters, so that str.startswith is computed.                         *)
(***************************************************************************)
StartsWith(s, p) == Len(s) >= Len(p) /\ SubSeq(s, 1, Len(p)) = p

TagQ == <<"q">>
Tag2th == <<"2", "t", "h">>
TagD == <<"d">>
\* the axis markers of a file header, '# q_A^-1' and '# 2th_deg'
TagQFile == <<"q", "_", "A", "^", "-", "1">>
Tag2thFile == <<"2", "t", "h", "_", "d", "e", "g">>
\* a tag that is none of the three axes
TagBad == <<"E">>

AxisTags == {TagQ, Tag2th, TagD}

(***************************************************************************)
(* The unit conversions of larch_plugins.xrd.xrd_tools, element by         *)
(* element: d = 2 pi / q, q = 2 pi / d, q = 4 pi sin(twth / 2) / lambda.   *)
(* sin and arcsin are their series to the fifth power.                     *)
(***************************************************************************)
Mul(a, b) == (a * b) \div Scale

Sin(r) ==
    LET r2 == Mul(r, r)
        r3 == Mul(r2, r)
        r5 == Mul(r3, r2)
    IN  r - (r3 \div 6) + (r5 \div 120)

ArcSin(z) ==
    LET z2 == Mul(z, z)
        z3 == Mul(z2, z)
        z5 == Mul(z3, z2)
    IN  z + (z3 \div 6) + ((3 * z5) \div 40)

Degrees(r) == (r * DegPerRad) \div Scale
Radians(t) == (t * Scale) \div DegPerRad

d_from_q(qs) == [i \in 1..Len(qs) |-> (TwoPi * Scale) \div qs[i]]
\* q from d without the factor 2 pi
q_from_d_Reciprocal(ds) == [i \in 1..Len(ds) |-> (Scale * Scale) \div ds[i]]

q_from_d(ds) == [i \in 1..Len(ds) |-> (TwoPi * Scale) \div ds[i]]
twth_from_q(qs, wl) ==
    [i \in 1..Len(qs) |-> 2 * Degrees(ArcSin((qs[i] * wl) \div (2 * TwoPi)))]
twth_from_d(ds, wl) ==
    [i \in 1..Len(ds) |-> 2 * Degrees(ArcSin((wl * Scale) \div (2 * ds[i])))]
q_from_twth(ts, wl) ==
    [i \in 1..Len(ts) |-> (2 * TwoPi * Sin(Radians(ts[i] \div 2))) \div wl]
d_from_twth(ts, wl) ==
    [i \in 1..Len(ts) |-> (wl * Scale) \div (2 * Sin(Radians(ts[i] \div 2)))]

(***************************************************************************)
(* Arrays handed to a function: the samples v in order, given flat (n,),   *)
(* as one row (1, n) or as one column (n, 1).                              *)
(***************************************************************************)
Forms == {"flat", "row", "col"}

Given(form, v) == [form |-> form, v |-> v]

Shape(x) ==
    IF x.form = "flat" THEN <<Len(x.v)>>
    ELSE IF x.form = "row" THEN <<1, Len(x.v)>>
    ELSE <<Len(x.v), 1>>

\* np.array(x).squeeze(): the axes of length 1 are removed; an array left
\* without axes is 0-d
Squeeze(x) ==
    IF SelectSeq(Shape(x), LAMBDA n : n /= 1) = <<>>
    THEN [kind |-> "0d", v |-> x.v]
    ELSE Arr(x.v)

\* an array of the shape of a with the samples s
Like(a, s) == [kind |-> a.kind, v |-> s]

\* calculate_xvalues with np.zeros(len(x) - 1) for the axes that need the
\* wavelength
calculate_xvalues_ShortZeros(x, xtype, wl) ==
    LET a == Squeeze(x)
        none == [q |-> NoneArr, twth |-> NoneArr, d |-> NoneArr, err |-> ""]
        unsized == [none EXCEPT !.err = "TypeError"]
    IN  IF StartsWith(xtype, TagQ) THEN
            IF wl /= NoneVal
            THEN [q |-> a, twth |-> Like(a, twth_from_q(a.v, wl)),
                  d |-> Like(a, d_from_q(a.v)), err |-> ""]
            ELSE IF ~IsArr(a) THEN unsized
            ELSE [q |-> a, twth |-> Arr(Zeros(Len(a.v) - 1)),
                  d |-> Like(a, d_from_q(a.v)), err |-> ""]
        ELSE IF StartsWith(xtype, Tag2th) THEN
            IF wl /= NoneVal
            THEN [q |-> Like(a, q_from_twth(a.v, wl)), twth |-> a,
                  d |-> Like(a, d_from_twth(a.v, wl)), err |-> ""]
            ELSE IF ~IsArr(a) THEN unsized
            ELSE [q |-> Arr(Zeros(Len(a.v) - 1)), twth |-> a,
                  d |-> Arr(Zeros(Len(a.v) - 1)), err |-> ""]
        ELSE IF StartsWith(xtype, TagD) THEN
            IF wl /= NoneVal
            THEN [q |-> Like(a, q_from_d(a.v)),
                  twth |-> Like(a, twth_from_d(a.v, wl)), d |-> a, err |-> ""]
            ELSE IF ~IsArr(a) THEN unsized
            ELSE [q |-> Like(a, q_from_d(a.v)),
                  twth |-> Arr(Zeros(Len(a.v) - 1)), d |-> a, err |-> ""]
        ELSE none

(***************************************************************************)
(* calculate_xvalues(x, xtype, wavelength): the three axes it returns and  *)
(* the exception that ends it ("" when it returns).  len() of a 0-d array  *)
(* raises TypeError.                                                       *)
(***************************************************************************)
calculate_xvalues(x, xtype, wl) ==
    LET a == Squeeze(x)
        none == [q |-> NoneArr, twth |-> NoneArr, d |-> NoneArr, err |-> ""]
        unsized == [none EXCEPT !.err = "TypeError"]
    IN  IF StartsWith(xtype, TagQ) THEN
            IF wl /= NoneVal
            THEN [q |-> a, twth |-> Like(a, twth_from_q(a.v, wl)),
                  d |-> Like(a, d_from_q(a.v)), err |-> ""]
            ELSE IF ~IsArr(a) THEN unsized
            ELSE [q |-> a, twth |-> Arr(Zeros(Len(a.v))),
                  d |-> Like(a, d_from_q(a.v)), err |-> ""]
        ELSE IF StartsWith(xtype, Tag2th) THEN
            IF wl /= NoneVal
            THEN [q |-> Like(a, q_from_twth(a.v, wl)), twth |-> a,
                  d |-> Like(a, d_from_twth(a.v, wl)), err |-> ""]
            ELSE IF ~IsArr(a) THEN unsized
            ELSE [q |-> Arr(Zeros(Len(a.v))), twth |-> a,
                  d |-> Arr(Zeros(Len(a.v))), err |-> ""]
        ELSE IF StartsWith(xtype, TagD) THEN
            IF wl /= NoneVal
            THEN [q |-> Like(a, q_from_d(a.v)),
                  twth |-> Like(a, twth_from_d(a.v, wl)), d |-> a, err |-> ""]
            ELSE IF ~IsArr(a) THEN unsized
            ELSE [q |-> Like(a, q_from_d(a.v)),
                  twth |-> Arr(Zeros(Len(a.v))), d |-> a, err |-> ""]
        ELSE none

(***************************************************************************)
(* set_xy_data: xy is a 2-d array, the sequence of its rows.               *)
(***************************************************************************)
Rows(m) == Len(m)
Cols(m) == Len(m[1])

\* the axis np.split cuts along: columns (1) when shape[0] > shape[1]
SplitAxis(m) == IF Rows(m) > Cols(m) THEN 1 ELSE 0

\* np.split(xy, 2, axis) raises ValueError unless the axis divides evenly
SplitOk(m) ==
    IF SplitAxis(m) = 1 THEN Cols(m) % 2 = 0 ELSE Rows(m) % 2 = 0

\* the two halves, each still 2-d: a (1, N) half is a row, an (N, 1) half a
\* column (for the blocks of two rows or of two columns)
SplitHalf(m, k) ==
    IF SplitAxis(m) = 1 THEN Given("col", [i \in 1..Rows(m) |-> m[i][k]])
    ELSE Given("row", m[k])

\* the attributes set_xy_data leaves, given the ones it found; err is the
\* exception that ends it, "" when it returns
XYData(xy, xtype, self) ==
    IF ~SplitOk(xy) THEN [self EXCEPT !.err = "ValueError"]
    ELSE
        LET xv == calculate_xvalues(SplitHalf(xy, 1), xtype, self.wavelength)
            y == Squeeze(SplitHalf(xy, 2))
            set == [self EXCEPT !.q = xv.q, !.twth = xv.twth, !.d = xv.d,
                                !.I = y]
        IN  IF self.wavelength = MissingVal
            THEN [self EXCEPT !.err = "AttributeError"]
            ELSE IF xv.err /= "" THEN [self EXCEPT !.err = xv.err]
            ELSE IF ~IsArr(xv.q) THEN [set EXCEPT !.err = "TypeError"]
            ELSE [set EXCEPT !.imin = 0, !.imax = Len(xv.q.v),
                             !.bkgd = Arr(Zeros(Len(y.v))), !.err = ""]

(***************************************************************************)
(* The object.  A method is an operator from the attributes it finds       *)
(* (self) to the attributes it leaves, with err the exception that ends    *)
(* it ("" when it returns) and val the value it returns.                   *)
(***************************************************************************)
Self ==
    [q |-> q, twth |-> twth, d |-> d, I |-> I, wavelength |-> wavelength,
     imin |-> imin, imax |-> imax, bkgd |-> bkgd, pki |-> pki,
     err |-> "", val |-> <<>>]

Raise(self, e) == [self EXCEPT !.err = e, !.val = <<>>]

\* a - b of two 1-d arrays under numpy broadcasting; the lengths must agree
\* unless one of them is 1
CanBroadcast(a, b) == Len(a) = Len(b) \/ Len(a) = 1 \/ Len(b) = 1

Subtract(a, b) ==
    IF Len(a) = Len(b) THEN [i \in 1..Len(a) |-> a[i] - b[i]]
    ELSE IF Len(b) = 1 THEN [i \in 1..Len(a) |-> a[i] - b[1]]
    ELSE [i \in 1..Len(b) |-> a[1] - b[i]]

\* if reset: self.imin,self.imax = 0,len(self.I)
ResetRange(self) ==
    IF IsArr(self.I) THEN [self EXCEPT !.imin = 0, !.imax = Len(self.I.v)]
    ELSE Raise(self, "TypeError")

\* the list of plot and all_data with the intensities never reduced by the
\* background
DataList_NoSubtract(self, bk) ==
    IF ~IsArr(self.q) THEN Raise(self, "TypeError")
    ELSE [self EXCEPT !.val = <<Slice(self.q.v, self.imin, self.imax),
                                Slice(self.twth.v, self.imin, self.imax),
                                Slice(self.d.v, self.imin, self.imax),
                                Slice(self.I.v, self.imin, self.imax),
                                self.bkgd.v>>]

\* the list of plot and all_data with the background subtracted in place,
\* in the stored intensities
DataList_InPlace(self, bk) ==
    IF ~IsArr(self.q) THEN Raise(self, "TypeError")
    ELSE
        LET y == Slice(self.I.v, self.imin, self.imax)
            head == <<Slice(self.q.v, self.imin, self.imax),
                      Slice(self.twth.v, self.imin, self.imax),
                      Slice(self.d.v, self.imin, self.imax)>>
            lo == SliceStart(self.I.v, self.imin)
        IN  IF ~bk THEN [self EXCEPT !.val = head \o <<y, self.bkgd.v>>]
            ELSE IF self.bkgd.kind = "none" THEN Raise(self, "TypeError")
            ELSE IF self.bkgd.kind = "arr" /\ ~CanBroadcast(y, self.bkgd.v)
                THEN Raise(self, "ValueError")
            ELSE [self EXCEPT
                    !.val = head \o <<Subtract(y, self.bkgd.v), self.bkgd.v>>,
                    !.I = IF Len(y) = Len(self.bkgd.v)
                          THEN Arr([i \in 1..Len(self.I.v) |->
                                      IF i > lo /\ i <= lo + Len(y)
                                      THEN self.I.v[i] - self.bkgd.v[i - lo]
                                      ELSE self.I.v[i]])
                          ELSE self.I]

\* the list both plot and all_data return
DataList(self, bk) ==
    IF ~IsArr(self.q) THEN Raise(self, "TypeError")
    ELSE
        LET y == Slice(self.I.v, self.imin, self.imax)
            head == <<Slice(self.q.v, self.imin, self.imax),
                      Slice(self.twth.v, self.imin, self.imax),
                      Slice(self.d.v, self.imin, self.imax)>>
        IN  IF ~bk THEN [self EXCEPT !.val = head \o <<y, self.bkgd.v>>]
            ELSE IF self.bkgd.kind = "none" THEN Raise(self, "TypeError")
            ELSE IF self.bkgd.kind = "arr" /\ ~CanBroadcast(y, self.bkgd.v)
                THEN Raise(self, "ValueError")
            ELSE [self EXCEPT
                    !.val = head \o <<Subtract(y, self.bkgd.v), self.bkgd.v>>]

plot(reset, bk, self) ==
    LET s1 == IF reset THEN ResetRange(self) ELSE self
    IN  IF s1.err /= "" THEN s1 ELSE DataList(s1, bk)

reset_bkgd(self) ==
    [self EXCEPT !.bkgd = IF IsArr(self.I) THEN Arr(Zeros(Len(self.I.v)))
                          ELSE ZeroD]

slct_xaxis(xtype, self) ==
    IF StartsWith(xtype, TagQ) THEN self.q
    ELSE IF StartsWith(xtype, Tag2th) THEN self.twth
    ELSE IF StartsWith(xtype, TagD) THEN self.d
    ELSE NoneArr

\* set_trim resolving a value to the last of the samples nearest to it
RECURSIVE ArgMinLastFrom(_, _, _)
ArgMinLastFrom(s, i, best) ==
    IF i > Len(s) THEN best - 1
    ELSE ArgMinLastFrom(s, i + 1, IF s[i] <= s[best] THEN i ELSE best)

TrimRange_LastOnTies(x, xmin, xmax) ==
    [imin |-> IF xmin > SeqMin(x) THEN ArgMinLastFrom(AbsDiff(x, xmin), 2, 1) ELSE 0,
     imax |-> IF xmax < SeqMax(x) THEN ArgMinLastFrom(AbsDiff(x, xmax), 2, 1)
              ELSE Len(x) - 1]

\* the indices set_trim stores for the axis values x
TrimRange(x, xmin, xmax) ==
    [imin |-> IF xmin > SeqMin(x) THEN ArgMin(AbsDiff(x, xmin)) ELSE 0,
     imax |-> IF xmax < SeqMax(x) THEN ArgMin(AbsDiff(x, xmax)) ELSE Len(x) - 1]

set_trim(xmin, xmax, xtype, self) ==
    LET x == slct_xaxis(xtype, self)
    IN  IF x.kind = "unset" THEN Raise(self, "AttributeError")
        ELSE IF ~IsArr(x) THEN Raise(self, "TypeError")
        ELSE [self EXCEPT !.imin = TrimRange(x.v, xmin, xmax).imin,
                          !.imax = TrimRange(x.v, xmin, xmax).imax]

\* all_data repairing only a background that is too long
RepairBkgd_OnlyLonger(self) ==
    LET n == Len(Slice(self.I.v, self.imin, self.imax))
    IN  IF n < Len(self.bkgd.v) THEN Arr(Zeros(n)) ELSE self.bkgd

\* the background all_data leaves: zeros of the active length when the
\* stored one has another length
RepairBkgd(self) ==
    LET n == Len(Slice(self.I.v, self.imin, self.imax))
    IN  IF n /= Len(self.bkgd.v) THEN Arr(Zeros(n)) ELSE self.bkgd

\* all_data resetting the range on every call
all_data_AlwaysReset(reset, bk, self) ==
    LET s1 == ResetRange(self)
    IN  IF s1.err /= "" THEN s1
        ELSE IF ~IsArr(s1.I) \/ ~IsArr(s1.bkgd) THEN Raise(s1, "TypeError")
        ELSE DataList([s1 EXCEPT !.bkgd = RepairBkgd(s1)], bk)

all_data(reset, bk, self) ==
    LET s1 == IF reset THEN ResetRange(self) ELSE self
    IN  IF s1.err /= "" THEN s1
        ELSE IF ~IsArr(s1.I) \/ ~IsArr(s1.bkgd) THEN Raise(s1, "TypeError")
        ELSE DataList([s1 EXCEPT !.bkgd = RepairBkgd(s1)], bk)

(***************************************************************************)
(* The external routines.  xrd_background(x, y) returns a curve that is    *)
(* short samples shorter than y and depends on the window it is given:     *)
(* the curve is x in whole units, 1, 2, 3, ... on q = 1.0, 2.0, 3.0, ...   *)
(* peakfinder(y) returns indices of local maxima of y, in ascending order; *)
(* peakfilter keeps the indices whose sample exceeds the threshold.        *)
(***************************************************************************)
xrd_background(x, y, short) == [i \in 1..(Len(y) - short) |-> x[i] \div Scale]

RECURSIVE SortedSeq(_)
SortedSeq(S) ==
    IF S = {} THEN <<>>
    ELSE LET m == CHOOSE a \in S : \A b \in S : a <= b
         IN  <<m>> \o SortedSeq(S \ {m})

LocalMaxima(y) ==
    {i \in 0..(Len(y) - 1) :
        /\ Len(y) > 1
        /\ i > 0 => y[i] <= y[i + 1]
        /\ i < Len(y) - 1 => y[i + 2] <= y[i + 1]
        /\ \/ i > 0 /\ y[i] < y[i + 1]
           \/ i < Len(y) - 1 /\ y[i + 2] < y[i + 1]}

peakfinder(y) == {SortedSeq(S) : S \in SUBSET LocalMaxima(y)}

\* thresholding the data itself: every sample above the threshold, whether
\* a candidate or not
peakfilter_AllAbove(threshold, ipeaks, y) ==
    SelectSeq([i \in 1..Len(y) |-> i - 1], LAMBDA i : y[i + 1] > threshold)

peakfilter(threshold, ipeaks, y) ==
    SelectSeq(ipeaks, LAMBDA i : y[i + 1] > threshold)

\* fit_background storing the estimator's curve as it is
fit_background_NoPad(short, self) ==
    IF ~IsArr(self.q) THEN Raise(self, "TypeError")
    ELSE [self EXCEPT !.bkgd =
            Arr(xrd_background(Slice(self.q.v, self.imin, self.imax),
                               Slice(self.I.v, self.imin, self.imax), short))]

fit_background(short, self) ==
    IF ~IsArr(self.q) THEN Raise(self, "TypeError")
    ELSE
        LET x == Slice(self.q.v, self.imin, self.imax)
            y == Slice(self.I.v, self.imin, self.imax)
            b == xrd_background(x, y, short)
        IN  IF Len(b) >= Len(y) THEN [self EXCEPT !.bkgd = Arr(b)]
            ELSE IF Len(b) = 0
                THEN Raise([self EXCEPT !.bkgd = Arr(b)], "IndexError")
            ELSE [self EXCEPT !.bkgd = Arr(Append(b, b[Len(b)]))]

\* find_peaks storing the candidates of peakfinder, filtered or not
find_peaks_StoresCandidates(bk, threshold, found, self) ==
    LET s1 == all_data(FALSE, bk, self)
    IN  IF s1.err /= "" THEN s1
        ELSE
            LET tbl == s1.val
                kept == IF threshold /= NoneVal
                        THEN peakfilter(threshold, found, tbl[4])
                        ELSE found
                pk_data == [r \in 1..5 |->
                              [i \in 1..Len(kept) |-> tbl[r][kept[i] + 1]]]
            IN  [s1 EXCEPT !.pki = found, !.val = pk_data]

\* find_peaks once peakfinder has returned found
find_peaks(bk, threshold, found, self) ==
    LET s1 == all_data(FALSE, bk, self)
    IN  IF s1.err /= "" THEN s1
        ELSE
            LET tbl == s1.val
                kept == IF threshold /= NoneVal
                        THEN peakfilter(threshold, found, tbl[4])
                        ELSE found
                pk_data == [r \in 1..5 |->
                              [i \in 1..Len(kept) |-> tbl[r][kept[i] + 1]]]
            IN  [s1 EXCEPT !.pki = kept, !.val = pk_data]

\* what peakfinder may return to find_peaks(bk) in the current state
Found(bk, self) ==
    LET s1 == all_data(FALSE, bk, self)
    IN  IF s1.err /= "" THEN {<<>>} ELSE peakfinder(s1.val[4])

(***************************************************************************)
(* Inputs                                                                  *)
(***************************************************************************)
\* no wavelength, or 1 angstrom
Wavelengths == {NoneVal, Scale}

\* n samples of the native axis: 1, 2, ..., n units
NativeX(n) == [i \in 1..n |-> i * Scale]

\* n intensities rising to the middle sample in steps of 5 counts
Triangle(n) == [i \in 1..n |-> 5 * (IF i - 1 < n - i THEN i - 1 ELSE n - i)]

RowBlock(x, y) == <<x, y>>
ColBlock(x, y) == [i \in 1..Len(x) |-> <<x[i], y[i]>>]

\* the x/y blocks: two rows of n samples, or n rows of two (for n = 2 the
\* block is the two rows)
XYBlocks ==
    {RowBlock(NativeX(n), Triangle(n)) : n \in 1..MaxLen}
    \cup {ColBlock(NativeX(n), Triangle(n)) : n \in (1..MaxLen) \ {2}}

TrimValues == {k * Scale : k \in 0..MaxTrim}

(***************************************************************************)
(* Construction                                                            *)
(***************************************************************************)
\* the attributes of an object that holds no data
Blank(wl) ==
    [q |-> NoneArr, twth |-> NoneArr, d |-> NoneArr, I |-> NoneArr,
     wavelength |-> wl, imin |-> NoneVal, imax |-> NoneVal,
     bkgd |-> NoneArr, pki |-> <<>>, err |-> "", val |-> <<>>]

\* xrd1d(file): xrd_from_file hands the data block and the header's axis
\* marker to set_xy_data, then __init__ sets its analysis defaults
FromFile(dat, xtype, wl) ==
    LET s == XYData(dat, xtype, Blank(wl))
    IN  [s EXCEPT !.pki = <<>>, !.imin = NoneVal, !.imax = NoneVal]

\* the objects a constructor call returns
Constructed ==
    {Blank(wl) : wl \in Wavelengths}
    \cup {s \in {FromFile(dat, xtype, Scale) :
                    dat \in XYBlocks, xtype \in {TagQFile, Tag2thFile}} :
            s.err = ""}

(***************************************************************************)
(* The state machine.  call is the last call made on the object and ret    *)
(* what it gave back: the exception that ended it ("" when it returned)    *)
(* and the value it returned.                                              *)
(***************************************************************************)
NoCall ==
    [op |-> "__init__", reset |-> FALSE, bk |-> FALSE, xmin |-> 0, xmax |-> 0,
     xtype |-> <<>>, x |-> Given("flat", <<>>), y |-> NoneArr,
     wavelength |-> NoneVal, short |-> 0, threshold |-> NoneVal,
     found |-> <<>>, file |-> "none"]

\* the object takes the attributes s; c is the call that was made
Apply(s, c) ==
    /\ q' = s.q
    /\ twth' = s.twth
    /\ d' = s.d
    /\ I' = s.I
    /\ wavelength' = s.wavelength
    /\ imin' = s.imin
    /\ imax' = s.imax
    /\ bkgd' = s.bkgd
    /\ pki' = s.pki
    /\ ret' = [err |-> s.err, val |-> s.val]
    /\ call' = c
    /\ UNCHANGED <<plotvars, panelvars>>

\* the object is s, just constructed
Start(s) ==
    /\ q = s.q
    /\ twth = s.twth
    /\ d = s.d
    /\ I = s.I
    /\ wavelength = s.wavelength
    /\ imin = s.imin
    /\ imax = s.imax
    /\ bkgd = s.bkgd
    /\ pki = s.pki
    /\ ret = [err |-> "", val |-> <<>>]
    /\ call = NoCall
    /\ drawn = <<>>
    /\ skip_process = FALSE
    /\ stack = <<>>

Init == \E s \in Constructed : Start(s)

\* the data of an object are set once: set_xy_data is called on an object
\* whose axes are not set
SetXYDataOf(blocks) ==
    \E xy \in blocks, xtype \in AxisTags \cup {TagBad} :
        /\ ~IsArr(q)
        /\ Apply(XYData(xy, xtype, Self), [NoCall EXCEPT !.op = "set_xy_data"])

SetXYData == SetXYDataOf(XYBlocks)

Plot ==
    \E reset \in BOOLEAN, bk \in BOOLEAN :
        Apply(plot(reset, bk, Self),
              [NoCall EXCEPT !.op = "plot", !.reset = reset, !.bk = bk])

ResetBkgd == Apply(reset_bkgd(Self), [NoCall EXCEPT !.op = "reset_bkgd"])

SetTrim ==
    \E xmin \in TrimValues, xmax \in TrimValues, xtype \in AxisTags \cup {TagBad} :
        Apply(set_trim(xmin, xmax, xtype, Self), [NoCall EXCEPT !.op = "set_trim"])

AllData ==
    \E reset \in BOOLEAN, bk \in BOOLEAN :
        Apply(all_data(reset, bk, Self),
              [NoCall EXCEPT !.op = "all_data", !.reset = reset, !.bk = bk])

FitBackground ==
    \E short \in 0..MaxShort :
        /\ IsArr(q) => short <= Len(Slice(I.v, imin, imax))
        /\ Apply(fit_background(short, Self), [NoCall EXCEPT !.op = "fit_background"])

FindPeaks ==
    \E bk \in BOOLEAN, threshold \in {NoneVal, PeakThreshold} :
        \E found \in Found(bk, Self) :
            Apply(find_peaks(bk, threshold, found, Self),
                  [NoCall EXCEPT !.op = "find_peaks", !.bk = bk])

Next ==
    \/ SetXYData
    \/ Plot
    \/ ResetBkgd
    \/ SetTrim
    \/ AllData
    \/ FitBackground
    \/ FindPeaks

Spec == Init /\ [][Next]_vars

(***************************************************************************)
(* The trimming calls alone, on more data and with the arguments of        *)
(* set_trim kept in call.  The object is constructed without data and its  *)
(* data are set by set_xy_data.                                            *)
(***************************************************************************)
\* n samples two units apart: 1, 3, 5, ... units
SpacedX(n) == [i \in 1..n |-> (2 * i - 1) * Scale]

TrimBlocks == XYBlocks \cup {RowBlock(SpacedX(n), Triangle(n)) : n \in 2..MaxLen}

\* q = [1,2,3,4,5] with I = [0,5,10,5,0]
ScenarioBlock == RowBlock(NativeX(5), Triangle(5))

InitTrim == \E wl \in Wavelengths : Start(Blank(wl))

SetXYDataTrim == SetXYDataOf(TrimBlocks)

\* the pattern of q = [1,2,3,4,5], I = [0,5,10,5,0] and wavelength 1.0
SetScenario ==
    /\ ~IsArr(q)
    /\ wavelength = Scale
    /\ Apply(XYData(ScenarioBlock, TagQ, Self), [NoCall EXCEPT !.op = "set_xy_data"])

SetTrimArgs ==
    \E xmin \in TrimValues, xmax \in TrimValues, xtype \in AxisTags \cup {TagBad} :
        LET s == set_trim(xmin, xmax, xtype, Self)
        IN  Apply(s, IF s.err = ""
                     THEN [NoCall EXCEPT !.op = "set_trim", !.xmin = xmin,
                                         !.xmax = xmax, !.xtype = xtype]
                     ELSE [NoCall EXCEPT !.op = "set_trim", !.xtype = xtype])

NextTrim ==
    \/ SetXYDataTrim
    \/ SetScenario
    \/ SetTrimArgs
    \/ AllData
    \/ Plot

SpecTrim == InitTrim /\ [][NextTrim]_vars

(***************************************************************************)
(* The background fit and the peak search, with what the external          *)
(* routines returned kept in call: the number of samples the estimator's   *)
(* curve was short of the active range, and the candidates of peakfinder.  *)
(* The object is constructed without data, with wavelength 1.0.            *)
(***************************************************************************)
InitPeaks == Start(Blank(Scale))

SetXYDataPeaks == SetXYDataOf(XYBlocks)

FitBackgroundArgs ==
    \E short \in 0..MaxShortFit :
        /\ IsArr(q) => short <= Len(Slice(I.v, imin, imax))
        /\ Apply(fit_background(short, Self),
                 [NoCall EXCEPT !.op = "fit_background", !.short = short])

FindPeaksArgs ==
    \E bk \in BOOLEAN, threshold \in {NoneVal, PeakThreshold} :
        \E found \in Found(bk, Self) :
            Apply(find_peaks(bk, threshold, found, Self),
                  [NoCall EXCEPT !.op = "find_peaks", !.bk = bk,
                                 !.threshold = threshold, !.found = found])

NextPeaks ==
    \/ SetXYDataPeaks
    \/ SetScenario
    \/ SetTrim
    \/ FitBackgroundArgs
    \/ FindPeaksArgs
    \/ AllData

SpecPeaks == InitPeaks /\ [][NextPeaks]_vars

(***************************************************************************)
(* The module function and the constructor called on their own, with the   *)
(* arguments kept in call.  calculate_xvalues touches no object; its       *)
(* result, the triple (q, twth, d), is in ret.  The calls are made while   *)
(* the object at hand holds no axes.                                       *)
(***************************************************************************)
\* the arrays handed to calculate_xvalues: 0 to MaxLen samples, in each form
XInputs ==
    {Given(form, v) :
        form \in Forms,
        v \in {NativeX(n) : n \in 0..MaxLen} \cup {SpacedX(n) : n \in 2..MaxLen}}

\* xrd1d(x=x, xtype=xtype, I=y, wavelength=wl): with intensities given, the
\* constructor tests the name xytq, which is bound nowhere
FromArrays(x, xtype, y, wl) ==
    IF y.kind /= "none" THEN Raise(Blank(wl), "NameError") ELSE Blank(wl)

\* the files handed to the constructor: one the reader fails on, and
\* readable ones with or without the axis marker and the Wavelength line in
\* the header
Files == {"unreadable", "no marker", "no wavelength", "complete"}

\* the object while xrd_from_file runs: no attribute but filename and label
\* is assigned yet
Unassigned ==
    [q |-> Unset, twth |-> Unset, d |-> Unset, I |-> Unset,
     wavelength |-> MissingVal, imin |-> NoneVal, imax |-> NoneVal,
     bkgd |-> Unset, pki |-> <<>>, err |-> "", val |-> <<>>]

\* xrd1d(file): what the constructor returns or the exception that ends it.
\* When the reader fails xrd_from_file prints and returns, and __init__
\* goes on to its analysis defaults; without the marker the name xtype is
\* unbound at the set_xy_data call.
FromFileRead(file, dat, xtype) ==
    IF file = "unreadable" THEN Unassigned
    ELSE IF file = "no marker" THEN Raise(Unassigned, "UnboundLocalError")
    ELSE IF file = "no wavelength" THEN XYData(dat, xtype, Unassigned)
    ELSE FromFile(dat, xtype, Scale)

ConstructFile ==
    \E file \in Files, dat \in XYBlocks, xtype \in {TagQFile, Tag2thFile} :
        /\ ~IsArr(q)
        /\ Apply(FromFileRead(file, dat, xtype),
                 [NoCall EXCEPT !.op = "__init__", !.file = file])

InitCalls == \E wl \in Wavelengths : Start(Blank(wl))

CalcXValues ==
    \E x \in XInputs, xtype \in AxisTags \cup {TagQFile, Tag2thFile, TagBad},
       wl \in Wavelengths :
        LET r == calculate_xvalues(x, xtype, wl)
        IN  /\ ~IsArr(q)
            /\ call' = [NoCall EXCEPT !.op = "calculate_xvalues", !.x = x,
                                      !.xtype = xtype, !.wavelength = wl]
            /\ ret' = [err |-> r.err,
                       val |-> IF r.err = "" THEN <<r.q, r.twth, r.d>> ELSE <<>>]
            /\ UNCHANGED <<q, twth, d, I, wavelength, imin, imax, bkgd, pki>>
            /\ UNCHANGED <<plotvars, panelvars>>

Construct ==
    \E n \in 1..MaxLen, xtype \in AxisTags, given \in BOOLEAN,
       wl \in Wavelengths :
        LET x == Given("flat", NativeX(n))
            y == IF given THEN Arr(Triangle(n)) ELSE NoneArr
        IN  /\ ~IsArr(q)
            /\ Apply(FromArrays(x, xtype, y, wl),
                     [NoCall EXCEPT !.op = "__init__", !.x = x, !.xtype = xtype,
                                    !.y = y, !.wavelength = wl])

SetXYDataCalls == SetXYDataOf(XYBlocks)

NextCalls ==
    \/ CalcXValues
    \/ Construct
    \/ ConstructFile
    \/ SetXYDataCalls
    \/ SetTrimArgs

SpecCalls == InitCalls /\ [][NextCalls]_vars

(***************************************************************************)
(* The XAFS plotting macros of plugins/xafs/xafsplots.py.  A macro is an   *)
(* operator from its arguments to the exception that ends it ("" when it   *)
(* returns) and the calls it has sent to the plotter, in order.  The data  *)
(* groups carry every array a macro reads except where an argument says    *)
(* otherwise.                                                              *)
(***************************************************************************)
\* the window _plot draws in when it is given none
DefaultWin == 1

\* a call to the plotter: the function, its window, whether it starts a new
\* plot, its label (with the number of the path or fit, else 0) and the
\* array drawn, as the names it is computed from
Draw(fn, win, new, label, n, y) ==
    [n |-> n, y |-> y, fn |-> fn, win |-> win, new |-> new, label |-> label]

\* redraw(win=win)
Redraw(win) == Draw("redraw", win, FALSE, "", 0, <<>>)

\* whether _plot starts a new plot when it is not told
DefaultNew == FALSE

Done(log) == [err |-> "", log |-> log]
Failed(e, log) == [err |-> e, log |-> log]

\* the show_mag, show_real, show_imag arguments
Flags(mag, real, imag) == [mag |-> mag, real |-> real, imag |-> imag]

\* plotlabels.chirlab: ylab[0] of an empty list raises IndexError
chirlab(flags) ==
    IF flags.mag \/ flags.real \/ flags.imag THEN "" ELSE "IndexError"

\* the window of a _plot call made with **opts: the opts of plot_path_r and
\* plot_paths_r carry no 'win' key (optswin is NoneVal)
OptsWin(optswin) == IF optswin = NoneVal THEN DefaultWin ELSE optswin

\* the chi(R) traces of plot_path_r and plot_paths_r: one _plot per flag
\* that is set, opts['new'] turned False after each
Traces(flags, new, optswin, label, n) ==
    LET t1 == IF flags.mag
              THEN <<Draw("_plot", OptsWin(optswin), new, label, n, <<"chir_mag">>)>>
              ELSE <<>>
        new1 == IF flags.mag THEN FALSE ELSE new
        t2 == IF flags.real
              THEN <<Draw("_plot", OptsWin(optswin), new1, label, n, <<"chir_re">>)>>
              ELSE <<>>
        new2 == IF flags.real THEN FALSE ELSE new1
        t3 == IF flags.imag
              THEN <<Draw("_plot", OptsWin(optswin), new2, label, n, <<"chir_im">>)>>
              ELSE <<>>
    IN  t1 \o t2 \o t3

plot_path_r(npaths, ipath, flags, new, win) ==
    IF ipath >= npaths THEN Failed("IndexError", <<>>)
    ELSE IF chirlab(flags) /= "" THEN Failed(chirlab(flags), <<>>)
    ELSE Done(Traces(flags, new, NoneVal, "path", ipath + 1) \o <<Redraw(win)>>)

\* the loop of plot_paths_r from path ipath on: plot_path_r is called with
\* the opts, which hold new=False by then and no window
RECURSIVE PathLoop(_, _, _)
PathLoop(npaths, ipath, flags) ==
    IF ipath >= npaths THEN <<>>
    ELSE plot_path_r(npaths, ipath, flags, FALSE, DefaultWin).log
         \o PathLoop(npaths, ipath + 1, flags)

plot_paths_r(npaths, flags, new, win) ==
    IF chirlab(flags) /= "" THEN Failed(chirlab(flags), <<>>)
    ELSE Done(Traces(flags, new, NoneVal, "sum", 0)
              \o PathLoop(npaths, 0, flags)
              \o <<Redraw(win)>>)

\* plot_chifit: chi(k) of data and fit in window win, chi(R) in window
\* win + 1; the Im traces are drawn with plot, a name the module does not
\* bind
plot_chifit(flags, new, win) ==
    LET chik == <<Draw("_plot", win, new, "data", 0, <<"chi", "k">>),
                  Draw("_plot", win, DefaultNew, "fit", 0, <<"chi", "k">>),
                  Redraw(win)>>
        w2 == win + 1
        mag == IF flags.mag
               THEN <<Draw("_plot", w2, TRUE, "|data|", 0, <<"chir_mag">>),
                      Draw("_plot", w2, FALSE, "|fit|", 0, <<"chir_mag">>)>>
               ELSE <<>>
        new1 == IF flags.mag THEN FALSE ELSE TRUE
        re == IF flags.real
              THEN <<Draw("_plot", w2, new1, "Re[data]", 0, <<"chir_re">>),
                     Draw("_plot", w2, FALSE, "Re[fit]", 0, <<"chir_re">>)>>
              ELSE <<>>
    IN  IF chirlab(flags) /= "" THEN Failed(chirlab(flags), chik)
        ELSE IF flags.imag THEN Failed("NameError", chik \o mag \o re)
        ELSE Done(chik \o mag \o re \o <<Redraw(w2)>>)

MuNames == {"mu", "mutrans", "mufluor"}

\* the array plot_mu takes for mu: the first of mu, mutrans, mufluor the
\* group has, "" when it has none
MuOf3(attrs) ==
    IF "mu" \in attrs THEN "mu"
    ELSE IF "mutrans" \in attrs THEN "mutrans"
    ELSE IF "mufluor" \in attrs THEN "mufluor"
    ELSE ""

\* the array plot_bkg and plot_chie take for mu: mu or mutrans
MuOf2(attrs) ==
    IF "mu" \in attrs THEN "mu"
    ELSE IF "mutrans" \in attrs THEN "mutrans"
    ELSE ""

MuOpts(show_norm, show_deriv, with_deriv, show_pre, show_post, show_e0) ==
    [show_norm |-> show_norm, show_deriv |-> show_deriv,
     with_deriv |-> with_deriv, show_pre |-> show_pre, show_post |-> show_post,
     show_e0 |-> show_e0]

\* the E0 line and the legend both plot_mu and plot_bkg add for show_e0
E0Line(show_e0, win) ==
    IF show_e0
    THEN <<Draw("_plot_axvline", win, FALSE, "E0", 0, <<"e0">>),
           Draw("draw_legend", win, FALSE, "", 0, <<>>)>>
    ELSE <<>>

plot_mu(attrs, o, new, win) ==
    IF MuOf3(attrs) = ""
    THEN Failed("ValueError", <<>>)
    ELSE
        LET mu == IF o.show_deriv THEN <<"gradient", MuOf3(attrs)>>
                  ELSE IF o.show_norm THEN <<"norm">>
                  ELSE <<MuOf3(attrs)>>
            first == <<Draw("_plot", win, new, "mu", 0, mu)>>
            deriv == IF o.with_deriv
                     THEN <<Draw("_plot", win, DefaultNew, "mu (deriv)", 0,
                                 <<"gradient">> \o mu)>>
                     ELSE <<>>
            pre == IF ~o.show_norm /\ ~o.show_deriv /\ o.show_pre
                   THEN <<Draw("_plot", win, DefaultNew, "pre_edge", 0,
                               <<"pre_edge">>)>>
                   ELSE <<>>
            post == IF ~o.show_norm /\ ~o.show_deriv /\ o.show_post
                    THEN <<Draw("_plot", win, DefaultNew, "post_edge", 0,
                                <<"post_edge">>)>>
                         \o (IF o.show_pre
                             THEN <<Draw("_plot_arrow", win, FALSE, "", 0,
                                         <<"pre_edge", "post_edge">>)>>
                             ELSE <<>>)
                    ELSE <<>>
        IN  Done(first \o deriv \o pre \o post \o E0Line(o.show_e0, win)
                 \o <<Redraw(win)>>)

plot_bkg(attrs, norm, show_e0, new, win) ==
    IF MuOf2(attrs) = ""
    THEN Failed("ValueError", <<>>)
    ELSE
        LET mu == IF norm THEN <<"norm">> ELSE <<MuOf2(attrs)>>
            bkg == IF norm THEN <<"bkg", "pre_edge", "edge_step">> ELSE <<"bkg">>
            label == IF norm THEN "mu (norm)" ELSE "mu"
        IN  Done(<<Draw("_plot", win, new, label, 0, mu),
                   Draw("_plot", win, DefaultNew, "bkg", 0, bkg)>>
                 \o E0Line(show_e0, win) \o <<Redraw(win)>>)

plot_chie(attrs, new, win) ==
    IF MuOf2(attrs) = ""
    THEN Failed("ValueError", <<>>)
    ELSE Done(<<Draw("_plot", win, new, "", 0, <<MuOf2(attrs), "bkg">>)>>)

\* the fit plot_prepeaks_fit takes: the group's prepeaks for show_init
\* (n is NoneVal), else entry nfit of prepeaks.fit_history, entry 0 when
\* nfit > len(fit_history).  history is the length of fit_history, NoneVal
\* when prepeaks has no such attribute: len(None) raises TypeError.
PrepeaksResult(hasprep, show_init, history, nfit) ==
    IF ~hasprep THEN [err |-> "ValueError", nfit |-> NoneVal]
    ELSE IF show_init THEN [err |-> "", nfit |-> NoneVal]
    ELSE IF history = NoneVal THEN [err |-> "TypeError", nfit |-> NoneVal]
    ELSE LET k == IF nfit > history THEN 0 ELSE nfit
         IN  IF k >= history THEN [err |-> "IndexError", nfit |-> NoneVal]
             ELSE [err |-> "", nfit |-> k]

PrepeakOpts(subtract_baseline, show_residual, show_fitrange, show_centroid) ==
    [subtract_baseline |-> subtract_baseline, show_residual |-> show_residual,
     show_fitrange |-> show_fitrange, show_centroid |-> show_centroid]

\* a fit of the history has one baseline component and one peak; the
\* initial model has no components
plot_prepeaks_fit(hasprep, show_init, history, nfit, o, win) ==
    LET res == PrepeaksResult(hasprep, show_init, history, nfit)
        n == res.nfit
        ylabel == IF show_init THEN "model" ELSE "best fit"
        data == IF o.show_residual
                THEN <<Draw("_fitplot", win, FALSE, "data", n, <<"mu", ylabel>>)>>
                ELSE <<Draw("_plot", win, TRUE, "data", n, <<"mu">>),
                       Draw("_oplot", win, FALSE, ylabel, n, <<ylabel>>)>>
        comps == IF show_init THEN <<>>
                 ELSE (IF ~o.subtract_baseline
                       THEN <<Draw("_oplot", win, FALSE, "baseline", n,
                                   <<"baseline">>)>>
                       ELSE <<>>)
                      \o <<Draw("_oplot", win, FALSE, "peak", n, <<"ycomp">>)>>
        range == IF o.show_fitrange
                 THEN <<Draw("_plot_axvline", win, FALSE, "_nolegend_", n,
                             <<"emin">>),
                        Draw("_plot_axvline", win, FALSE, "_nolegend_", n,
                             <<"emax">>)>>
                 ELSE <<>>
        centroid == IF o.show_centroid
                    THEN <<Draw("_plot_axvline", win, FALSE, "_nolegend_", n,
                                <<"centroid">>)>>
                    ELSE <<>>
    IN  IF res.err /= "" THEN Failed(res.err, <<>>)
        ELSE Done(data \o comps \o range \o centroid \o <<Redraw(win)>>)

(***************************************************************************)
(* The macros called with arguments from small sets; call holds the        *)
(* arguments and drawn what the macro sent to the plotter.                 *)
(***************************************************************************)
PlotCall(op) ==
    [op |-> op, win |-> DefaultWin, new |-> FALSE,
     flags |-> Flags(FALSE, FALSE, FALSE), npaths |-> 0, ipath |-> 0,
     attrs |-> {}, hasprep |-> FALSE, show_init |-> FALSE,
     history |-> NoneVal, nfit |-> 0,
     opts |-> MuOpts(FALSE, FALSE, FALSE, FALSE, FALSE, FALSE),
     popts |-> PrepeakOpts(FALSE, FALSE, FALSE, FALSE)]

\* the macro called as c has ended as r
Macro(c, r) ==
    /\ call' = c
    /\ ret' = [err |-> r.err, val |-> <<>>]
    /\ drawn' = r.log
    /\ UNCHANGED <<q, twth, d, I, wavelength, imin, imax, bkgd, pki>>
    /\ UNCHANGED panelvars

Wins == 1..MaxWin

InitPlots == Start(Blank(NoneVal))

PlotPathR ==
    \E npaths \in 1..MaxPaths, ipath \in 0..(MaxPaths - 1),
       mag \in BOOLEAN, real \in BOOLEAN, imag \in BOOLEAN,
       new \in BOOLEAN, win \in Wins :
      LET flags == Flags(mag, real, imag) IN
        Macro([PlotCall("plot_path_r") EXCEPT !.npaths = npaths,
                                 !.ipath = ipath, !.flags = flags, !.new = new,
                                 !.win = win],
              plot_path_r(npaths, ipath, flags, new, win))

PlotPathsR ==
    \E npaths \in 0..MaxPaths, mag \in BOOLEAN, real \in BOOLEAN,
       imag \in BOOLEAN, new \in BOOLEAN, win \in Wins :
      LET flags == Flags(mag, real, imag) IN
        Macro([PlotCall("plot_paths_r") EXCEPT !.npaths = npaths,
                                 !.flags = flags, !.new = new, !.win = win],
              plot_paths_r(npaths, flags, new, win))

PlotChifit ==
    \E mag \in BOOLEAN, real \in BOOLEAN, imag \in BOOLEAN,
       new \in BOOLEAN, win \in Wins :
      LET flags == Flags(mag, real, imag) IN
        Macro([PlotCall("plot_chifit") EXCEPT !.flags = flags,
                                 !.new = new, !.win = win],
              plot_chifit(flags, new, win))

PlotMu ==
    \E attrs \in SUBSET MuNames, show_norm \in BOOLEAN, show_deriv \in BOOLEAN,
       more \in BOOLEAN, win \in Wins :
      LET o == MuOpts(show_norm, show_deriv, more, more, more, more) IN
        Macro([PlotCall("plot_mu") EXCEPT !.attrs = attrs, !.opts = o,
                                          !.new = TRUE, !.win = win],
              plot_mu(attrs, o, TRUE, win))

PlotBkg ==
    \E attrs \in SUBSET MuNames, norm \in BOOLEAN, show_e0 \in BOOLEAN,
       win \in Wins :
        Macro([PlotCall("plot_bkg") EXCEPT !.attrs = attrs,
                                           !.opts.show_norm = norm,
                                           !.opts.show_e0 = show_e0,
                                           !.new = TRUE, !.win = win],
              plot_bkg(attrs, norm, show_e0, TRUE, win))

PlotChie ==
    \E attrs \in SUBSET MuNames, new \in BOOLEAN, win \in Wins :
        Macro([PlotCall("plot_chie") EXCEPT !.attrs = attrs,
                                            !.new = new, !.win = win],
              plot_chie(attrs, new, win))

\* the groups plot_prepeaks_fit is given: without prepeaks, with prepeaks
\* that has no fit_history, and with a fit_history of 0..MaxFits fits
PrepeakGroups ==
    {<<FALSE, NoneVal>>} \cup {<<TRUE, h>> : h \in {NoneVal} \cup (0..MaxFits)}

PlotPrepeaksFit ==
    \E g \in PrepeakGroups, show_init \in BOOLEAN, nfit \in 0..(MaxFits + 1),
       subtract_baseline \in BOOLEAN, show_residual \in BOOLEAN,
       marks \in BOOLEAN, win \in Wins :
      LET o == PrepeakOpts(subtract_baseline, show_residual, marks, marks) IN
        Macro([PlotCall("plot_prepeaks_fit") EXCEPT
                   !.hasprep = g[1], !.show_init = show_init,
                   !.history = g[2], !.nfit = nfit, !.popts = o, !.win = win],
              plot_prepeaks_fit(g[1], show_init, g[2], nfit, o, win))

NextPlots ==
    \/ PlotPathR
    \/ PlotPathsR
    \/ PlotChifit
    \/ PlotMu
    \/ PlotBkg
    \/ PlotChie
    \/ PlotPrepeaksFit

SpecPlots == InitPlots /\ [][NextPlots]_vars

(***************************************************************************)
(* LinearComboPanel (lincombo_panel.py).  The panel runs on the GUI        *)
(* thread: stack holds the methods that are running, the innermost last,   *)
(* each with the statement it is at.  A widget event is delivered either   *)
(* when nothing runs or, nested, while a method is in a call into the      *)
(* widgets or the plotter.                                                 *)
(***************************************************************************)
Frame(fn, pc) == [fn |-> fn, pc |-> pc]

Top == stack[Len(stack)]
Pop == SubSeq(stack, 1, Len(stack) - 1)
\* the running method moves on to statement pc
Goto(pc) == [stack EXCEPT ![Len(stack)].pc = pc]
\* the running method calls fn and will resume at statement pc
Call(fn, first, pc) == Append(Goto(pc), Frame(fn, first))

Running(fn) == stack /= <<>> /\ Top.fn = fn

\* the handlers the widgets and the frame call, with their first statement
Handlers ==
    {Frame("onProcess", "guard"), Frame("fill_form", "set"),
     Frame("onSaveConfigBtn", "read_form"), Frame("build_display", "set")}

\* the statements during which the GUI can deliver a further event
InWidgets ==
    \/ Top.fn = "fill_form" /\ Top.pc = "fill"
    \/ Top.fn = "read_form" /\ Top.pc = "read"
    \/ Top.fn = "build_display" /\ Top.pc = "build"
    \/ Top.fn = "onProcess" /\ Top.pc = "plot"

PanelStep(s, k) ==
    /\ skip_process' = s
    /\ stack' = k
    /\ UNCHANGED xrdvars
    /\ UNCHANGED plotvars

InitPanel == Start(Blank(NoneVal))

\* an event arrives: any handler when nothing runs, the action of a spin
\* control or button (onProcess) while a method is inside the widgets
Event ==
    \/ /\ stack = <<>>
       /\ \E h \in Handlers : PanelStep(skip_process, <<h>>)
    \/ /\ stack /= <<>>
       /\ Len(stack) < MaxDepth
       /\ InWidgets
       /\ PanelStep(skip_process, Append(stack, Frame("onProcess", "guard")))

onProcess ==
    /\ Running("onProcess")
    /\ \/ /\ Top.pc = "guard"
          /\ IF skip_process
             THEN PanelStep(skip_process, Pop)
             ELSE PanelStep(TRUE, Goto("read_form"))
       \/ /\ Top.pc = "read_form"
          /\ PanelStep(skip_process, Call("read_form", "set", "process"))
       \/ /\ Top.pc = "process"
          /\ PanelStep(skip_process, Call("process", "guard", "plot"))
       \/ /\ Top.pc = "plot"
          /\ PanelStep(skip_process, Goto("clear"))
       \/ /\ Top.pc = "clear"
          /\ PanelStep(FALSE, Pop)

process ==
    /\ Running("process")
    /\ \/ /\ Top.pc = "guard"
          /\ IF skip_process
             THEN PanelStep(skip_process, Pop)
             ELSE PanelStep(TRUE, Goto("read_form"))
       \/ /\ Top.pc = "read_form"
          /\ PanelStep(skip_process, Call("read_form", "set", "return"))
       \/ /\ Top.pc = "return"
          /\ PanelStep(skip_process, Pop)

read_form ==
    /\ Running("read_form")
    /\ \/ /\ Top.pc = "set"
          /\ PanelStep(TRUE, Goto("read"))
       \/ /\ Top.pc = "read"
          /\ PanelStep(skip_process, Goto("clear"))
       \/ /\ Top.pc = "clear"
          /\ PanelStep(FALSE, Pop)

fill_form ==
    /\ Running("fill_form")
    /\ \/ /\ Top.pc = "set"
          /\ PanelStep(TRUE, Goto("fill"))
       \/ /\ Top.pc = "fill"
          /\ PanelStep(skip_process, Goto("clear"))
       \/ /\ Top.pc = "clear"
          /\ PanelStep(FALSE, Goto("process"))
       \/ /\ Top.pc = "process"
          /\ PanelStep(skip_process, Call("process", "guard", "return"))
       \/ /\ Top.pc = "return"
          /\ PanelStep(skip_process, Pop)

build_display ==
    /\ Running("build_display")
    /\ \/ /\ Top.pc = "set"
          /\ PanelStep(TRUE, Goto("build"))
       \/ /\ Top.pc = "build"
          /\ PanelStep(skip_process, Goto("clear"))
       \/ /\ Top.pc = "clear"
          /\ PanelStep(FALSE, Pop)

onSaveConfigBtn ==
    /\ Running("onSaveConfigBtn")
    /\ \/ /\ Top.pc = "read_form"
          /\ PanelStep(skip_process, Call("read_form", "set", "return"))
       \/ /\ Top.pc = "return"
          /\ PanelStep(skip_process, Pop)

NextPanel ==
    \/ Event
    \/ onProcess
    \/ process
    \/ read_form
    \/ fill_form
    \/ build_display
    \/ onSaveConfigBtn

SpecPanel == InitPanel /\ [][NextPanel]_vars

(***************************************************************************)
(* Properties                                                              *)
(***************************************************************************)
\* the pattern holds data: its axes and its intensities are arrays
HasData == IsArr(q) /\ IsArr(I)

\* the last call was op and it returned
Returned(op) == call.op = op /\ ret.err = ""

\* the active slice of the intensities
ActiveLen == Len(Slice(I.v, imin, imax))

\* the axis the last set_trim call named
TrimAxis == slct_xaxis(call.xtype, Self).v

\* i is the 0-based index of the first of the samples of x nearest to v
IsFirstNearest(x, v, i) ==
    /\ i \in 0..(Len(x) - 1)
    /\ \A j \in 0..(Len(x) - 1) : Abs(x[i + 1] - v) <= Abs(x[j + 1] - v)
    /\ \A j \in 0..(i - 1) : Abs(x[j + 1] - v) > Abs(x[i + 1] - v)

NearestIdx(x, v) == CHOOSE i \in 0..(Len(x) - 1) : IsFirstNearest(x, v, i)

\* C1: whenever the pattern holds data, after construction and after every
\* call, q, twth, d and I have the same length.
C1_EqualLengths ==
    HasData =>
        /\ IsArr(twth)
        /\ IsArr(d)
        /\ Len(I.v) = Len(q.v)
        /\ Len(q.v) = Len(twth.v)
        /\ Len(twth.v) = Len(d.v)

\* C1 is met after a trim, a background fit and a peak search on a pattern
\* without wavelength
C1_Witness ==
    /\ Returned("find_peaks")
    /\ HasData
    /\ wavelength = NoneVal
    /\ imin > 0

\* C2: whenever the pattern holds data, imin and imax are integers with
\* 0 <= imin < imax <= len(I).
C2_RangeValid ==
    HasData =>
        /\ imin /= NoneVal
        /\ imax /= NoneVal
        /\ 0 <= imin
        /\ imin < imax
        /\ imax <= Len(I.v)

\* C3: after every set_trim call that returns, imin < imax.
C3_TrimNonEmpty == Returned("set_trim") => imin < imax

\* C4: on q = [1,2,3,4,5], I = [0,5,10,5,0], set_trim(2, 4) on q gives
\* imin = 1, imax = 4 and all_data then returns the intensities [5,10,5];
\* in general, when the two trim values resolve to a lower and a higher
\* sample, both samples are inside the slice [imin:imax].
C4_InclusiveTrim ==
    /\ ( /\ Returned("set_trim")
         /\ q = Arr(NativeX(5))
         /\ I = Arr(Triangle(5))
         /\ call.xtype = TagQ
         /\ call.xmin = 2 * Scale
         /\ call.xmax = 4 * Scale )
       => /\ imin = 1
          /\ imax = 4
          /\ all_data(FALSE, FALSE, Self).val[4] = <<5, 10, 5>>
    /\ ( /\ Returned("set_trim")
         /\ NearestIdx(TrimAxis, call.xmin) < NearestIdx(TrimAxis, call.xmax) )
       => /\ imin <= NearestIdx(TrimAxis, call.xmin)
          /\ NearestIdx(TrimAxis, call.xmin) < imax
          /\ imin <= NearestIdx(TrimAxis, call.xmax)
          /\ NearestIdx(TrimAxis, call.xmax) < imax

\* C5: after set_trim, imin = 0 when xmin is below the minimum of the axis
\* and imax = len(x) when xmax exceeds its maximum.
C5_ClampAtBounds ==
    Returned("set_trim") =>
        /\ call.xmin < SeqMin(TrimAxis) => imin = 0
        /\ call.xmax > SeqMax(TrimAxis) => imax = Len(TrimAxis)

\* C6: a reset leaves imin = 0 and imax = len(I), and set_trim with both
\* values outside the data leaves the range a reset leaves.
C6_ResetRestores ==
    /\ (call.op \in {"plot", "all_data"} /\ call.reset /\ IsArr(I))
       => imin = 0 /\ imax = Len(I.v)
    /\ ( /\ Returned("set_trim")
         /\ call.xmin < SeqMin(TrimAxis)
         /\ call.xmax > SeqMax(TrimAxis) )
       => imin = ResetRange(Self).imin /\ imax = ResetRange(Self).imax

\* C7: all_data called after set_trim(low, high) on the q axis returns only
\* samples whose q lies in [q[nearest(low)], q[nearest(high)]].
C7_SliceWithinNearest ==
    [][ ( /\ Returned("set_trim")
          /\ StartsWith(call.xtype, TagQ)
          /\ call'.op = "all_data"
          /\ ~call'.reset
          /\ ret'.err = "" )
        => \A i \in 1..Len(ret'.val[1]) :
              /\ q.v[NearestIdx(q.v, call.xmin) + 1] <= ret'.val[1][i]
              /\ ret'.val[1][i] <= q.v[NearestIdx(q.v, call.xmax) + 1] ]_vars

C9_BkgdMatchesRange ==
    (call.op \in {"plot", "all_data", "find_peaks"} /\ HasData)
    => Len(bkgd.v) = ActiveLen

\* C10: all_data, on a pattern that holds data, returns without error; it
\* replaces the background by zeros of the active length when the stored
\* length differs from it and leaves it unchanged otherwise, and its result
\* is built from the background it leaves.
C10_AllDataRepairs ==
    [][ (call'.op = "all_data" /\ HasData)
        => LET y == Slice(I.v, imin', imax')
           IN  /\ ret'.err = ""
               /\ IF Len(bkgd.v) /= Len(y) THEN bkgd' = Arr(Zeros(Len(y)))
                  ELSE bkgd' = bkgd
               /\ ret'.val[5] = bkgd'.v
               /\ ret'.val[4] = IF call'.bk
                                THEN [i \in 1..Len(y) |-> y[i] - bkgd'.v[i]]
                                ELSE y ]_vars

\* C10 is met where all_data has returned with the zeros it put in place
\* of a background of another length, on a trimmed range
C10_Witness ==
    /\ Returned("all_data")
    /\ HasData
    /\ 0 < ActiveLen
    /\ ActiveLen < Len(I.v)
    /\ bkgd = Arr(Zeros(ActiveLen))

\* C11: all_data, on a pattern that holds data, returns q, twth, d and I
\* each sliced to [imin:imax] and the background; with bkgd=True the
\* intensity is the slice of I minus the background element by element,
\* with bkgd=False it is the slice of I itself, and q, twth and d are the
\* same in both cases.
C11_AllDataSlices ==
    [][ (call'.op = "all_data" /\ HasData)
        => LET y == Slice(I.v, imin', imax')
               other == all_data(call'.reset, ~call'.bk, Self)
           IN  /\ ret'.err = ""
               /\ Len(ret'.val) = 5
               /\ ret'.val[1] = Slice(q.v, imin', imax')
               /\ ret'.val[2] = Slice(twth.v, imin', imax')
               /\ ret'.val[3] = Slice(d.v, imin', imax')
               /\ Len(ret'.val[4]) = Len(y)
               /\ \A i \in 1..Len(y) :
                     ret'.val[4][i] = IF call'.bk THEN y[i] - ret'.val[5][i]
                                      ELSE y[i]
               /\ ret'.val[5] = bkgd'.v
               /\ \A r \in 1..3 : other.val[r] = ret'.val[r] ]_vars

\* C11 is met where all_data(bkgd=True) has returned a trimmed slice reduced
\* by a fitted background
C11_Witness ==
    /\ Returned("all_data")
    /\ call.bk
    /\ HasData
    /\ imin > 0
    /\ ActiveLen > 0
    /\ ret.val[4] /= Slice(I.v, imin, imax)
    /\ ret.val[1] = Slice(q.v, imin, imax)

C13_FitRejectsMismatch ==
    [][ ( /\ call'.op = "fit_background"
          /\ HasData
          /\ call'.short > 1
          /\ call'.short < Len(Slice(I.v, imin, imax)) )
        => ret'.err /= "" /\ bkgd' = bkgd ]_vars

\* the intensities find_peaks searched on its last call: the active slice,
\* reduced by the background when bkgd=True
Searched ==
    LET y == Slice(I.v, imin, imax)
    IN  [i \in 1..Len(y) |-> IF call.bk THEN y[i] - bkgd.v[i] ELSE y[i]]

\* C14: find_peaks stores in pki the candidates that survive (all of them
\* without threshold, those the filter keeps with one) and returns 5 rows of
\* len(pki) values: column i is (q, twth, d, intensity, background) of the
\* active data at pki[i]; without survivors the rows are empty and nothing
\* is raised.
C14_PeakTable ==
    (call.op = "find_peaks" /\ HasData)
    => /\ ret.err = ""
       /\ pki = IF call.threshold = NoneVal THEN call.found
                ELSE peakfilter(call.threshold, call.found, Searched)
       /\ Len(ret.val) = 5
       /\ \A r \in 1..5 : Len(ret.val[r]) = Len(pki)
       /\ \A i \in 1..Len(pki) :
             /\ pki[i] \in 0..(ActiveLen - 1)
             /\ ret.val[1][i] = Slice(q.v, imin, imax)[pki[i] + 1]
             /\ ret.val[2][i] = Slice(twth.v, imin, imax)[pki[i] + 1]
             /\ ret.val[3][i] = Slice(d.v, imin, imax)[pki[i] + 1]
             /\ ret.val[4][i] = Searched[pki[i] + 1]
             /\ ret.val[5][i] = bkgd.v[pki[i] + 1]

\* C14 is met where a peak of a trimmed range survived the threshold
C14_Witness ==
    /\ Returned("find_peaks")
    /\ HasData
    /\ call.threshold /= NoneVal
    /\ imin > 0
    /\ Len(pki) > 0
    /\ Len(ret.val[1]) = Len(pki)

\* C15: pki is empty after construction, and after find_peaks every stored
\* index is an index into the full arrays: q, twth, d (and I, when the
\* background was not subtracted) of the full arrays at that index are the
\* values the table reports for the peak.
C15_FullArrayIndices ==
    /\ call.op = "__init__" => pki = <<>>
    /\ (Returned("find_peaks") /\ HasData)
       => \A i \in 1..Len(pki) :
             /\ pki[i] \in 0..(Len(q.v) - 1)
             /\ q.v[pki[i] + 1] = ret.val[1][i]
             /\ twth.v[pki[i] + 1] = ret.val[2][i]
             /\ d.v[pki[i] + 1] = ret.val[3][i]
             /\ ~call.bk => I.v[pki[i] + 1] = ret.val[4][i]

\* C16: in the state find_peaks was called in, and for what peakfinder
\* returned, the indices stored and returned with a finite threshold are
\* among those stored and returned with threshold=None.
C16_ThresholdShrinks ==
    [][ ( /\ call'.op = "find_peaks"
          /\ HasData
          /\ call'.threshold /= NoneVal )
        => LET unfiltered == find_peaks(call'.bk, NoneVal, call'.found, Self)
           IN  /\ Len(pki') <= Len(unfiltered.pki)
               /\ Len(ret'.val[1]) <= Len(unfiltered.val[1])
               /\ \A i \in 1..Len(pki') :
                     \E j \in 1..Len(unfiltered.pki) :
                        unfiltered.pki[j] = pki'[i] ]_vars

\* C16 is met where the threshold removed the only candidate
C16_Witness ==
    /\ Returned("find_peaks")
    /\ HasData
    /\ call.threshold /= NoneVal
    /\ Len(call.found) > 0
    /\ pki = <<>>

\* the tag names one of the three axes
Recognized(xtype) ==
    StartsWith(xtype, TagQ) \/ StartsWith(xtype, Tag2th) \/ StartsWith(xtype, TagD)

\* C17: an axis tag that is none of q, 2th, d is surfaced as an error:
\* calculate_xvalues ends with an exception instead of returning a result,
\* and set_trim ends with an exception and leaves imin and imax unchanged.
C17_BadAxisSurfaced ==
    [][ /\ (call'.op = "calculate_xvalues" /\ ~Recognized(call'.xtype))
           => ret'.err /= ""
        /\ (call'.op = "set_trim" /\ ~Recognized(call'.xtype))
           => ret'.err /= "" /\ imin' = imin /\ imax' = imax ]_vars

\* C18: without wavelength calculate_xvalues returns, for an input of any
\* length: from q, twth all zeros and d derived; from 2th, q and d all
\* zeros; from d, q derived and twth all zeros; the zero-filled arrays have
\* the length of the input.
C18_NoWavelengthZeros ==
    ( /\ call.op = "calculate_xvalues"
      /\ call.wavelength = NoneVal
      /\ Recognized(call.xtype) )
    => /\ ret.err = ""
       /\ LET n == Len(call.x.v)
              zeros == Arr(Zeros(n))
          IN  IF StartsWith(call.xtype, TagQ)
              THEN ret.val[2] = zeros /\ ret.val[3].v = d_from_q(call.x.v)
              ELSE IF StartsWith(call.xtype, Tag2th)
              THEN ret.val[1] = zeros /\ ret.val[3] = zeros
              ELSE ret.val[1].v = q_from_d(call.x.v) /\ ret.val[2] = zeros

\* C19: for every input, flat or as a row or a column, every axis tag that
\* is recognized and every wavelength, calculate_xvalues returns three
\* arrays that each have the length of the input.
C19_OutputLengths ==
    (call.op = "calculate_xvalues" /\ Recognized(call.xtype))
    => /\ ret.err = ""
       /\ \A k \in 1..3 :
             /\ IsArr(ret.val[k])
             /\ Len(ret.val[k].v) = Len(call.x.v)

\* C20: the constructor called with a native axis array, its tag and
\* intensities returns a pattern whose native axis is the array, whose
\* other axes are the ones calculate_xvalues derives, whose I is the given
\* intensities and whose background is zeros of the same length.
C20_ConstructFromArrays ==
    (call.op = "__init__" /\ IsArr(call.y))
    => LET xv == calculate_xvalues(call.x, call.xtype, call.wavelength)
       IN  /\ ret.err = ""
           /\ slct_xaxis(call.xtype, Self) = Arr(call.x.v)
           /\ q = xv.q
           /\ twth = xv.twth
           /\ d = xv.d
           /\ I = call.y
           /\ bkgd = Arr(Zeros(Len(call.y.v)))

\* C21: when the reader fails on the file or the header has no axis marker,
\* the constructor ends with an exception: no object is handed to the
\* caller, and so none that lacks q, twth, d, I or wavelength.
C21_FileLoadFails ==
    (call.op = "__init__" /\ call.file \in {"unreadable", "no marker"})
    => ret.err /= ""

\* C22: fit_background, find_peaks, reset_bkgd and plot and all_data without
\* reset leave imin and imax as they are, in every state; the range changes
\* only by set_trim and by a reset, once the data are set.
C22_RangeFrame ==
    [][ ( \/ call'.op \in {"fit_background", "find_peaks", "reset_bkgd"}
          \/ call'.op \in {"plot", "all_data"} /\ ~call'.reset )
        => imin' = imin /\ imax' = imax ]_vars

\* C22 is met where the background was reset on a trimmed range
C22_Witness ==
    /\ call.op = "reset_bkgd"
    /\ HasData
    /\ imin > 0
    /\ imax < Len(I.v)

\* the calls that work on a pattern whose data are set
Analysis ==
    {"set_trim", "plot", "all_data", "fit_background", "find_peaks", "reset_bkgd"}

\* C30: on a pattern that holds data, set_trim, plot, all_data,
\* fit_background, find_peaks and reset_bkgd leave q, twth, d, I and the
\* wavelength as they are; all_data(bkgd=True) called again returns the
\* intensities it has just returned.
C30_DataFrame ==
    [][ (call'.op \in Analysis /\ HasData)
        => /\ q' = q
           /\ twth' = twth
           /\ d' = d
           /\ I' = I
           /\ wavelength' = wavelength
           /\ (call'.op = "all_data" /\ call'.bk /\ ret'.err = "")
              => all_data(FALSE, TRUE, [Self EXCEPT !.I = I', !.bkgd = bkgd',
                                                    !.imin = imin',
                                                    !.imax = imax']).val[4]
                 = ret'.val[4] ]_vars

\* C30 is met where all_data(bkgd=True) has returned the full range reduced
\* by a background that is not zero
C30_Witness ==
    /\ Returned("all_data")
    /\ call.bk
    /\ HasData
    /\ imin = 0
    /\ imax = Len(I.v)
    /\ ret.val[4] /= I.v

\* C23: for a wavelength and q without zeros, calculate_xvalues(q, 'q', wl)
\* returns q with its values unchanged, and calculate_xvalues(d, 'd', wl) on
\* the d it returned gives back d unchanged and a q that agrees with the
\* original within tolerance.
C23_RoundTrip ==
    ( /\ call.op = "calculate_xvalues"
      /\ StartsWith(call.xtype, TagQ)
      /\ call.wavelength /= NoneVal )
    => /\ ret.err = ""
       /\ ret.val[1].v = call.x.v
       /\ LET back == calculate_xvalues(Given("flat", ret.val[3].v), TagD,
                                        call.wavelength)
          IN  /\ back.err = ""
              /\ back.d = ret.val[3]
              /\ Len(back.q.v) = Len(call.x.v)
              /\ \A i \in 1..Len(call.x.v) :
                    Abs(back.q.v[i] - call.x.v[i]) * Scale
                        <= RelTol * call.x.v[i]

\* C23 is met on q = [1, 3, 5] given as a column, whose d rounds
C23_Witness ==
    /\ call.op = "calculate_xvalues"
    /\ call.xtype = TagQ
    /\ call.wavelength = Scale
    /\ call.x = Given("col", SpacedX(3))
    /\ ret.err = ""
    /\ ret.val[3].v = d_from_q(SpacedX(3))
    /\ q_from_d(ret.val[3].v) /= ret.val[1].v

\* C28: the background all_data subtracts or returns is all zeros or the
\* curve fit_background stores on the range that is active now; a curve
\* fitted on another window is not applied, a window of the same length
\* included.
C28_BkgdOfActiveRange ==
    (Returned("all_data") /\ HasData)
    => \/ ret.val[5] = Zeros(Len(ret.val[5]))
       \/ \E short \in 0..MaxShort :
             LET fit == fit_background(short, Self)
             IN  fit.err = "" /\ fit.bkgd.v = ret.val[5]

\* C24: every trace plot_path_r and plot_paths_r draw goes to the window
\* given as win, the window their last redraw refreshes.
C24_TracesInGivenWindow ==
    (call.op \in {"plot_path_r", "plot_paths_r"} /\ ret.err = "")
    => /\ drawn[Len(drawn)] = Redraw(call.win)
       /\ \A i \in 1..Len(drawn) :
             drawn[i].fn = "_plot" => drawn[i].win = call.win

\* the traces of chi(R) plot_chifit is to draw from the flag at position k
\* of (mag, real, imag) on, first telling whether none was drawn yet
RECURSIVE ChifitTraces(_, _, _, _)
ChifitTraces(flags, k, first, win) ==
    IF k > 3 THEN <<>>
    ELSE LET name == <<"mag", "real", "imag">>[k]
             y == << <<"chir_mag">>, <<"chir_re">>, <<"chir_im">> >>[k]
             dlabel == <<"|data|", "Re[data]", "Im[data]">>[k]
             flabel == <<"|fit|", "Re[fit]", "Im[fit]">>[k]
         IN  IF flags[name]
             THEN <<Draw("_plot", win, first, dlabel, 0, y),
                    Draw("_plot", win, FALSE, flabel, 0, y)>>
                  \o ChifitTraces(flags, k + 1, FALSE, win)
             ELSE ChifitTraces(flags, k + 1, first, win)

\* C25: plot_chifit draws data and fit chi(k) in window win, then for each
\* flag that is set the data and the fit trace of chi(R) in window win + 1,
\* only the first of them starting a new plot, and ends with a redraw of
\* window win + 1, for every combination of flags with at least one set.
C25_ChifitCompletes ==
    ( /\ call.op = "plot_chifit"
      /\ call.flags.mag \/ call.flags.real \/ call.flags.imag )
    => /\ ret.err = ""
       /\ drawn = <<Draw("_plot", call.win, call.new, "data", 0, <<"chi", "k">>),
                    Draw("_plot", call.win, FALSE, "fit", 0, <<"chi", "k">>),
                    Redraw(call.win)>>
                  \o ChifitTraces(call.flags, 1, TRUE, call.win + 1)
                  \o <<Redraw(call.win + 1)>>

\* C26: plot_mu, plot_bkg and plot_chie raise ValueError, with nothing sent
\* to the plotter, when the group has none of mu, mutrans, mufluor; with
\* any of them they do not raise it, and draw the first the group has.
C26_MuArrayLookup ==
    (call.op \in {"plot_mu", "plot_bkg", "plot_chie"})
    => IF call.attrs = {}
       THEN ret.err = "ValueError" /\ drawn = <<>>
       ELSE /\ ret.err /= "ValueError"
            /\ (~call.opts.show_norm /\ ~call.opts.show_deriv)
               => drawn[1].y[1] = MuOf3(call.attrs)

\* C27: plot_prepeaks_fit raises ValueError when the group has no prepeaks
\* and when, without show_init, prepeaks has no fit history; with a history
\* and an nfit that is no index into it (nfit >= len) it plots fit 0.
C27_PrepeaksFallback ==
    (call.op = "plot_prepeaks_fit")
    => /\ ~call.hasprep => ret.err = "ValueError"
       /\ (call.hasprep /\ ~call.show_init /\ call.history \in {NoneVal, 0})
          => ret.err = "ValueError"
       /\ ( /\ call.hasprep
            /\ ~call.show_init
            /\ call.history > 0
            /\ call.nfit >= call.history )
          => ret.err = "" /\ drawn[1].n = 0


\* an onProcess that has passed its guard and has not returned
PastGuard(i) == stack[i].fn = "onProcess" /\ stack[i].pc /= "guard"

\* C29: skip_process is True from the moment onProcess passes its guard
\* until it returns, and is False once every method of the panel has
\* returned.
C29_SkipProcessGuards ==
    /\ (\E i \in 1..Len(stack) : PastGuard(i)) => skip_process
    /\ stack = <<>> => ~skip_process

====
